---- MODULE Spec2Model ----
(***************************************************************************)
(* A model of the web-exploration agent: the control loop of               *)
(* agent/orchestrator.py over the run context of agent/state.py, the       *)
(* decision pipeline of agent/decision.py (with the proposers of           *)
(* agent/llm.py and the summary of agent/perception.py), the outcome       *)
(* evaluator of agent/evaluator.py and the page driver of                  *)
(* browser/driver.py.                                                      *)
(*                                                                         *)
(* Python strings are TLA+ strings and every string test of the code       *)
(* (startswith, split, in, lower, count, join) is computed on characters.  *)
(* Python's None is the record None.  The page driver and the external     *)
(* proposer are the environment: what they return is drawn from the        *)
(* finite sets defined below.                                              *)
(***************************************************************************)
EXTENDS Naturals, Sequences, FiniteSets, TLC

VARIABLES
    current_state,   \* StateContext.current_state
    page_data,       \* StateContext.page_data
    chosen_action,   \* StateContext.chosen_action
    action_result,   \* StateContext.action_result
    action_count,    \* StateContext.action_count
    action_history,  \* StateContext.action_history
    insights,        \* Orchestrator.insights
    proposals,       \* decide_next_action: local `proposals` of the last call
    filtered,        \* decide_next_action: local `filtered` of the last call
    evaluation,      \* _evaluate: local `evaluation` of the last call
    run_pc,          \* where the caller stands (Orchestrator.run, or a direct call)
    pending,         \* the exception propagating out of run's try block
    close_calls,     \* number of BrowserDriver.close() calls
    driver_calls,    \* number of driver operations other than close()
    late_calls,      \* number of driver operations invoked after close()
    log_written,     \* number of times logs/run_log.json was written
    has_api_key,     \* whether llm_key / GROQ_API_KEY is set in the environment
    llm_instance,    \* agent.llm._llm_instance is not None
    proposer         \* how the last propose_actions_llm call got its list

vars == <<current_state, page_data, chosen_action, action_result, action_count,
          action_history, insights, proposals, filtered, evaluation, run_pc,
          pending, close_calls, driver_calls, late_calls, log_written,
          has_api_key, llm_instance, proposer>>

ctx_vars == <<current_state, page_data, chosen_action, action_result,
              action_count, action_history, insights>>

None == [none |-> TRUE]

(***************************************************************************)
(* Python string and list primitives                                       *)
(***************************************************************************)

\* Python evaluates an argument once, before the call.  TheOne({F(val) :
\* val \in {x}}}}) is F(x) with x evaluated once and handed to F as a value.
TheOne(S) == CHOOSE r \in S : TRUE

\* s.startswith(p)
StartsWith(s, p) ==
    \E t \in {s} :
        /\ Len(t) >= Len(p)
        /\ SubSeq(t, 1, Len(p)) = p

\* p in s, for strings
Contains(s, p) ==
    \E t \in {s} :
        \E i \in 1..(Len(t) + 1) :
            /\ i + Len(p) - 1 <= Len(t)
            /\ SubSeq(t, i, i + Len(p) - 1) = p

\* position of the first occurrence of p in s at or after i, 0 if none
FindFrom(s, p, i) ==
    LET Least(hits) ==
            IF hits = {} THEN 0 ELSE CHOOSE k \in hits : \A j \in hits : k <= j
        Hits(t) == {k \in i..Len(t) :
                        /\ k + Len(p) - 1 <= Len(t)
                        /\ SubSeq(t, k, k + Len(p) - 1) = p}
        First(t) == TheOne({Least(val) : val \in {Hits(t)}})
    IN  TheOne({First(val) : val \in {s}})

\* s.split(":", 1)[0]
SplitHead(s) ==
    LET Head1(t) ==
            LET Cut(k) == IF k = 0 THEN t ELSE SubSeq(t, 1, k - 1)
            IN  TheOne({Cut(val) : val \in {FindFrom(t, ":", 1)}})
    IN  TheOne({Head1(val) : val \in {s}})

\* s.split(":", 1)[1]  (the callers test for the colon first)
SplitTail(s) ==
    LET Tail1(t) == SubSeq(t, FindFrom(t, ":", 1) + 1, Len(t))
    IN  TheOne({Tail1(val) : val \in {s}})

UpperCase ==
    {"A", "B", "C", "D", "E", "F", "G", "H", "I", "J", "K", "L", "M",
     "N", "O", "P", "Q", "R", "S", "T", "U", "V", "W", "X", "Y", "Z"}

LowerChar(c) ==
    IF c \notin UpperCase THEN c
    ELSE CASE c = "A" -> "a" [] c = "B" -> "b" [] c = "C" -> "c" [] c = "D" -> "d"
           [] c = "E" -> "e" [] c = "F" -> "f" [] c = "G" -> "g" [] c = "H" -> "h"
           [] c = "I" -> "i" [] c = "J" -> "j" [] c = "K" -> "k" [] c = "L" -> "l"
           [] c = "M" -> "m" [] c = "N" -> "n" [] c = "O" -> "o" [] c = "P" -> "p"
           [] c = "Q" -> "q" [] c = "R" -> "r" [] c = "S" -> "s" [] c = "T" -> "t"
           [] c = "U" -> "u" [] c = "V" -> "v" [] c = "W" -> "w" [] c = "X" -> "x"
           [] c = "Y" -> "y" [] c = "Z" -> "z"

RECURSIVE Lower(_)
\* s.lower(), computed by halves
Lower(s) ==
    LET Halves(t) ==
            IF Len(t) = 0 THEN ""
            ELSE IF Len(t) = 1 THEN LowerChar(t)
            ELSE Lower(SubSeq(t, 1, Len(t) \div 2))
                 \o Lower(SubSeq(t, Len(t) \div 2 + 1, Len(t)))
    IN  TheOne({Halves(val) : val \in {s}})

RECURSIVE CountFrom(_, _, _)
CountFrom(s, p, i) ==
    LET Rest(k) == IF k = 0 THEN 0 ELSE 1 + CountFrom(s, p, k + Len(p))
    IN  TheOne({Rest(val) : val \in {FindFrom(s, p, i)}})

\* s.count(p): non-overlapping occurrences, left to right
Count(s, p) == LET From1(t) == CountFrom(t, p, 1) IN TheOne({From1(val) : val \in {s}})

RECURSIVE Strip(_)
\* s.strip(), for the blanks the proposer's answers carry
Strip(s) ==
    LET Ends(t) ==
            IF Len(t) = 0 THEN t
            ELSE IF SubSeq(t, 1, 1) = " " THEN Strip(SubSeq(t, 2, Len(t)))
            ELSE IF SubSeq(t, Len(t), Len(t)) = " " THEN Strip(SubSeq(t, 1, Len(t) - 1))
            ELSE t
    IN  TheOne({Ends(val) : val \in {s}})

RECURSIVE Join(_, _)
\* sep.join(seq)
Join(seq, sep) ==
    IF Len(seq) = 0 THEN ""
    ELSE IF Len(seq) = 1 THEN seq[1]
    ELSE seq[1] \o sep \o Join(Tail(seq), sep)

\* seq[:n]
Take(seq, n) == SubSeq(seq, 1, IF Len(seq) < n THEN Len(seq) ELSE n)


\* x in seq, for lists
InList(x, seq) == \E i \in 1..Len(seq) : seq[i] = x

\* the elements of a list, as a set
Range(seq) == {seq[i] : i \in 1..Len(seq)}

\* repr of a list of plain strings: ['a', 'b']
ReprList(seq) == "[" \o Join([i \in 1..Len(seq) |-> "'" \o seq[i] \o "'"], ", ") \o "]"

\* repr of a set of plain strings: {'a', 'b'}
ReprSet(seq) == "{" \o Join([i \in 1..Len(seq) |-> "'" \o seq[i] \o "'"], ", ") \o "}"

\* str(a) of an action dict
StrDict(a) ==
    "{'action': '" \o a.action \o "', 'target': '" \o a.target
        \o "', 'reason': '" \o a.reason \o "'}"

(***************************************************************************)
(* agent/perception.py                                                     *)
(***************************************************************************)

\* The driver's page states carry no "input_fields" key, so that part of the
\* summary is never written.  The warning sign before "Errors Detected" is
\* not ASCII and is left out of the text.
summarize_page_state(pd) ==
    "URL: " \o pd.url \o "\n" \o "Title: " \o pd.title \o "\n\n"
    \o (IF Len(pd.buttons) > 0
        THEN "Visible Buttons: " \o Join(Take(pd.buttons, 5), ", ") \o "\n"
        ELSE "")
    \o (IF Len(pd.links) > 0
        THEN "Visible Links: " \o Join(Take(pd.links, 5), ", ") \o "\n"
        ELSE "")
    \o (IF Len(pd.errors) > 0
        THEN "Errors Detected: " \o Join(pd.errors, ", ") \o "\n"
        ELSE "")

(***************************************************************************)
(* agent/llm.py                                                            *)
(***************************************************************************)

\* GrokLLM.propose_actions, the parsing of one line of the answer: the list
\* of candidates the line adds (none or one).
parse_line(raw) ==
    LET Parsed(line) ==
            IF ~StartsWith(line, "-") THEN <<>>
            ELSE LET Candidate(action) ==
                         IF FindFrom(action, ":", 1) = 0 THEN <<>>
                         ELSE <<Strip(SplitHead(action)) \o ":" \o Strip(SplitTail(action))>>
                 IN  TheOne({Candidate(val) : val \in {Strip(SubSeq(line, 2, Len(line)))}})
    IN  TheOne({Parsed(val) : val \in {Strip(raw)}})

RECURSIVE parse_lines(_)
parse_lines(lines) ==
    IF Len(lines) = 0 THEN <<>>
    ELSE parse_line(lines[1]) \o parse_lines(Tail(lines))

\* GrokLLM.propose_actions when the API call returns `lines`
parse_response(lines) == Take(parse_lines(lines), 3)

\* GrokLLM._fallback_proposals: used when the API call raises
llm_fallback_proposals(page_summary) ==
    IF Contains(page_summary, "Tutorial") THEN <<"click_link:Tutorial">>
    ELSE IF Contains(page_summary, "Library Reference")
         THEN <<"click_link:Library Reference">>
    ELSE IF Contains(page_summary, "What's New") THEN <<"click_link:What's New">>
    ELSE <<"click_link:Download">>

(***************************************************************************)
(* agent/decision.py                                                       *)
(***************************************************************************)

\* _fallback_proposals looking for a history entry whose action is the kind
_fallback_proposals_by_kind(page_summary, history) ==
    LET tried_wrong_login ==
            \E i \in 1..Len(history) : history[i].action = "try_wrong_login"
        tried_correct_login ==
            \E i \in 1..Len(history) : history[i].action = "try_correct_login"
        on_login ==
            IF Contains(page_summary, "practice-test-login")
               \/ Contains(page_summary, "/login")
            THEN IF ~tried_wrong_login THEN <<"try_wrong_login:test_validation">>
                 ELSE IF ~tried_correct_login THEN <<"try_correct_login:test_success">>
                 ELSE <<"observe_page:done">>
            ELSE <<>>
        on_success ==
            IF Contains(Lower(page_summary), "successfully")
               \/ Contains(Lower(page_summary), "logged in")
            THEN <<"observe_page:success_verified">>
            ELSE <<>>
        Limit(props) ==
            Take(IF Len(props) = 0 THEN <<"observe_page:no_action">> ELSE props, 3)
    IN  TheOne({Limit(val) : val \in {on_login \o on_success}})

\* _fallback_proposals: used when get_llm() or the proposer raises
_fallback_proposals(page_summary, history) ==
    LET tried_wrong_login ==
            \E i \in 1..Len(history) : Contains(StrDict(history[i]), "try_wrong_login")
        tried_correct_login ==
            \E i \in 1..Len(history) : Contains(StrDict(history[i]), "try_correct_login")
        on_login ==
            IF Contains(page_summary, "practice-test-login")
               \/ Contains(page_summary, "/login")
            THEN IF ~tried_wrong_login THEN <<"try_wrong_login:test_validation">>
                 ELSE IF ~tried_correct_login THEN <<"try_correct_login:test_success">>
                 ELSE <<"observe_page:done">>
            ELSE <<>>
        on_success ==
            IF Contains(Lower(page_summary), "successfully")
               \/ Contains(Lower(page_summary), "logged in")
            THEN <<"observe_page:success_verified">>
            ELSE <<>>
        Limit(props) ==
            Take(IF Len(props) = 0 THEN <<"observe_page:no_action">> ELSE props, 3)
    IN  TheOne({Limit(val) : val \in {on_login \o on_success}})

\* previous_combos with the target left out of the combination
previous_combos_kind_only(history) ==
    [i \in 1..Len(history) |-> history[i].action]

\* filter_actions, line 69: the action+target combinations already executed
previous_combos(history) ==
    [i \in 1..Len(history) |-> history[i].action \o ":" \o history[i].target]

\* keep_proposal without rule 2 (feasibility)
keep_proposal_no_repeat_only(proposal, history, pd) ==
    ~InList(proposal, previous_combos(history))

\* keep_proposal without rule 1 (no repeats)
keep_proposal_feasible_only(proposal, history, pd) ==
    /\ StartsWith(proposal, "click_button:") => InList(SplitTail(proposal), pd.buttons)
    /\ StartsWith(proposal, "click_link:") => InList(SplitTail(proposal), pd.links)

\* filter_actions, the body of the loop: whether `proposal` is appended
keep_proposal(proposal, history, pd) ==
    /\ ~InList(proposal, previous_combos(history))
    /\ StartsWith(proposal, "click_button:") => InList(SplitTail(proposal), pd.buttons)
    /\ StartsWith(proposal, "click_link:") => InList(SplitTail(proposal), pd.links)

RECURSIVE filter_actions_in_place(_, _, _)
\* filter_actions removing from the list it iterates over: the proposal that
\* follows a removed one is skipped by the loop and stays
filter_actions_in_place(props, history, pd) ==
    IF Len(props) = 0 THEN <<>>
    ELSE IF keep_proposal(props[1], history, pd)
         THEN <<props[1]>> \o filter_actions_in_place(Tail(props), history, pd)
    ELSE IF Len(props) = 1 THEN <<>>
    ELSE <<props[2]>> \o filter_actions_in_place(SubSeq(props, 3, Len(props)), history, pd)

RECURSIVE filter_actions_unique(_, _, _)
\* filter_actions also dropping a proposal it has already kept
filter_actions_unique(props, history, pd) ==
    IF Len(props) = 0 THEN <<>>
    ELSE LET kept == filter_actions_unique(SubSeq(props, 1, Len(props) - 1),
                                           history, pd)
             last == props[Len(props)]
         IN  IF keep_proposal(last, history, pd) /\ ~InList(last, kept)
             THEN Append(kept, last)
             ELSE kept

RECURSIVE filter_actions(_, _, _)
filter_actions(props, history, pd) ==
    IF Len(props) = 0 THEN <<>>
    ELSE (IF keep_proposal(props[1], history, pd) THEN <<props[1]>> ELSE <<>>)
         \o filter_actions(Tail(props), history, pd)

\* index of the first proposal whose flag is set, 0 if none: the proposal at
\* which a loop of choose_action returns
FirstIndex(flags) ==
    LET Least(hits) ==
            IF hits = {} THEN 0 ELSE CHOOSE i \in hits : \A j \in hits : i <= j
    IN  TheOne({Least(val) : val \in {{i \in DOMAIN flags : flags[i]}}})

information_dense_keywords == {"download", "modules", "index", "tutorial", "library"}

\* choose_action, heuristic 1 (lines 123-130)
is_version_link(p) == StartsWith(p, "click_link:Python 3.")

\* heuristic 2 comparing the keywords with the target as written
is_dense_link_case_sensitive(p) ==
    /\ StartsWith(p, "click_link:")
    /\ \E keyword \in information_dense_keywords : Contains(SplitTail(p), keyword)

\* choose_action, heuristic 2 (lines 134-142)
is_dense_link(p) ==
    /\ StartsWith(p, "click_link:")
    /\ \E target \in {Lower(SplitTail(p))} :
            \E keyword \in information_dense_keywords : Contains(target, keyword)

\* choose_action, heuristic 3 (lines 145-152)
is_link(p) == StartsWith(p, "click_link:")

\* choose_action, the button fallback (lines 155-162)
is_button(p) == StartsWith(p, "click_button:")

\* choose_action with the keyword heuristic tried before the version heuristic
choose_action_dense_first(props, pd) ==
    LET Chosen(fp) ==
        LET v == FirstIndex([i \in 1..Len(fp) |-> is_version_link(fp[i])])
            d == FirstIndex([i \in 1..Len(fp) |-> is_dense_link(fp[i])])
            l == FirstIndex([i \in 1..Len(fp) |-> is_link(fp[i])])
            b == FirstIndex([i \in 1..Len(fp) |-> is_button(fp[i])])
        IN  IF Len(fp) = 0 THEN None
            ELSE IF d > 0 THEN
                [action |-> "click_link", target |-> SplitTail(fp[d]),
                 reason |-> "Navigation to '" \o SplitTail(fp[d]) \o "' increases information density"]
            ELSE IF v > 0 THEN
                [action |-> "click_link", target |-> SplitTail(fp[v]),
                 reason |-> "Version link selected to compare documentation variants across Python versions"]
            ELSE IF l > 0 THEN
                [action |-> "click_link", target |-> SplitTail(fp[l]),
                 reason |-> "Link '" \o SplitTail(fp[l]) \o "' selected for documentation exploration"]
            ELSE IF b > 0 THEN
                [action |-> "click_button", target |-> SplitTail(fp[b]),
                 reason |-> "Button '" \o SplitTail(fp[b]) \o "' selected as available action"]
            ELSE IF StartsWith(fp[1], "observe_page:") THEN None
            ELSE [action |-> fp[1], target |-> "unknown",
                  reason |-> "Default action from proposals"]
    IN  TheOne({Chosen(val) : val \in {props}})

\* choose_action without the test for a leading observe_page marker: the
\* marker is returned through the generic fallback
choose_action_observe_as_action(props, pd) ==
    LET Chosen(fp) ==
        LET v == FirstIndex([i \in 1..Len(fp) |-> is_version_link(fp[i])])
            d == FirstIndex([i \in 1..Len(fp) |-> is_dense_link(fp[i])])
            l == FirstIndex([i \in 1..Len(fp) |-> is_link(fp[i])])
            b == FirstIndex([i \in 1..Len(fp) |-> is_button(fp[i])])
        IN  IF Len(fp) = 0 THEN None
            ELSE IF v > 0 THEN
                [action |-> "click_link", target |-> SplitTail(fp[v]),
                 reason |-> "Version link selected to compare documentation variants across Python versions"]
            ELSE IF d > 0 THEN
                [action |-> "click_link", target |-> SplitTail(fp[d]),
                 reason |-> "Navigation to '" \o SplitTail(fp[d]) \o "' increases information density"]
            ELSE IF l > 0 THEN
                [action |-> "click_link", target |-> SplitTail(fp[l]),
                 reason |-> "Link '" \o SplitTail(fp[l]) \o "' selected for documentation exploration"]
            ELSE IF b > 0 THEN
                [action |-> "click_button", target |-> SplitTail(fp[b]),
                 reason |-> "Button '" \o SplitTail(fp[b]) \o "' selected as available action"]
            ELSE [action |-> fp[1], target |-> "unknown",
                  reason |-> "Default action from proposals"]
    IN  TheOne({Chosen(val) : val \in {props}})

\* choose_action.  Lines 163-187 test again for click_button: and click_link:
\* proposals after both loops above have found none, so they never return.
choose_action(props, pd) ==
    LET Chosen(fp) ==
        LET v == FirstIndex([i \in 1..Len(fp) |-> is_version_link(fp[i])])
            d == FirstIndex([i \in 1..Len(fp) |-> is_dense_link(fp[i])])
            l == FirstIndex([i \in 1..Len(fp) |-> is_link(fp[i])])
            b == FirstIndex([i \in 1..Len(fp) |-> is_button(fp[i])])
        IN  IF Len(fp) = 0 THEN None
            ELSE IF v > 0 THEN
                [action |-> "click_link", target |-> SplitTail(fp[v]),
                 reason |-> "Version link selected to compare documentation variants across Python versions"]
            ELSE IF d > 0 THEN
                [action |-> "click_link", target |-> SplitTail(fp[d]),
                 reason |-> "Navigation to '" \o SplitTail(fp[d]) \o "' increases information density"]
            ELSE IF l > 0 THEN
                [action |-> "click_link", target |-> SplitTail(fp[l]),
                 reason |-> "Link '" \o SplitTail(fp[l]) \o "' selected for documentation exploration"]
            ELSE IF b > 0 THEN
                [action |-> "click_button", target |-> SplitTail(fp[b]),
                 reason |-> "Button '" \o SplitTail(fp[b]) \o "' selected as available action"]
            ELSE IF StartsWith(fp[1], "observe_page:") THEN None
            ELSE [action |-> fp[1], target |-> "unknown",
                  reason |-> "Default action from proposals"]
    IN  TheOne({Chosen(val) : val \in {props}})

\* decide_next_action, steps 3 and 4, on the proposals of step 2
decide_next_action(props, pd, history) ==
    choose_action(filter_actions(props, history, pd), pd)

(***************************************************************************)
(* agent/evaluator.py                                                      *)
(***************************************************************************)

detect_page_type(url) ==
    LET Type(url_lower) ==
            IF Contains(url_lower, "/download") THEN "download_page"
            ELSE IF Contains(url_lower, "/genindex") THEN "general_index"
            ELSE IF Contains(url_lower, "/py-modindex") THEN "module_index"
            ELSE IF Contains(url_lower, "/tutorial") THEN "tutorial"
            ELSE IF Contains(url_lower, "/library") THEN "library_reference"
            ELSE IF Count(url_lower, "/3.") >= 2 THEN "version_docs"
            ELSE "general_page"
    IN  TheOne({Type(val) : val \in {Lower(url)}})

\* url_insight without the case of two version pages
url_insight_no_version(before_type, after_type) ==
    IF before_type # after_type
    THEN "Navigation changed page type from " \o before_type \o " to " \o after_type
         \o " - meaningful exploration"
    ELSE "Navigation within same page type - may indicate redundant exploration"

\* evaluate_action_outcome, check 1: the insight of a URL change
url_insight(before_type, after_type) ==
    IF before_type = after_type /\ before_type = "version_docs"
    THEN "Navigation changed version but not content type - exploring version variants"
    ELSE IF before_type # after_type
    THEN "Navigation changed page type from " \o before_type \o " to " \o after_type
         \o " - meaningful exploration"
    ELSE "Navigation within same page type - may indicate redundant exploration"

\* set(after["buttons"]) - set(before["buttons"]), listed in the order of
\* after["buttons"] (Python prints a set in an order of its own)
new_buttons(before_state, after_state) ==
    SelectSeq(after_state.buttons, LAMBDA b : ~InList(b, before_state.buttons))

\* evaluate_action_outcome with the error check made before the URL check
evaluate_errors_first(before_state, after_state, action) ==
    LET result == [result |-> "no_change", observation |-> "", insight |-> "None"]
    IN  IF Len(after_state.errors) > 0 /\ Len(before_state.errors) = 0 THEN
            [result EXCEPT
                !.result = "error_appeared",
                !.observation = "Error message appeared: " \o ReprList(after_state.errors),
                !.insight = "Action '" \o action.action
                            \o "' triggered validation error - feedback mechanism working"]
        ELSE IF before_state.url # after_state.url THEN
            [result EXCEPT
                !.result = "url_changed",
                !.observation = "Page navigated from " \o before_state.url
                                \o " to " \o after_state.url,
                !.insight = url_insight(detect_page_type(before_state.url),
                                        detect_page_type(after_state.url))]
        ELSE IF Len(new_buttons(before_state, after_state)) > 0 THEN
            [result EXCEPT
                !.result = "content_changed",
                !.observation = "New buttons appeared: "
                                \o ReprSet(new_buttons(before_state, after_state)),
                !.insight = "Page updated after '" \o action.action
                            \o "' - dynamic content loaded"]
        ELSE
            [result EXCEPT
                !.result = "no_change",
                !.observation = "Action '" \o action.action \o "' on '" \o action.target
                                \o "' produced no visible effect",
                !.insight = "No observable change detected - action may have failed or target was incorrect"]

\* The warning sign that opens the no_change insight is not ASCII and is left
\* out of the text.
evaluate_action_outcome(before_state, after_state, action) ==
    LET result == [result |-> "no_change", observation |-> "", insight |-> "None"]
    IN  IF before_state.url # after_state.url THEN
            [result EXCEPT
                !.result = "url_changed",
                !.observation = "Page navigated from " \o before_state.url
                                \o " to " \o after_state.url,
                !.insight = url_insight(detect_page_type(before_state.url),
                                        detect_page_type(after_state.url))]
        ELSE IF Len(after_state.errors) > 0 /\ Len(before_state.errors) = 0 THEN
            [result EXCEPT
                !.result = "error_appeared",
                !.observation = "Error message appeared: " \o ReprList(after_state.errors),
                !.insight = "Action '" \o action.action
                            \o "' triggered validation error - feedback mechanism working"]
        ELSE IF Len(new_buttons(before_state, after_state)) > 0 THEN
            [result EXCEPT
                !.result = "content_changed",
                !.observation = "New buttons appeared: "
                                \o ReprSet(new_buttons(before_state, after_state)),
                !.insight = "Page updated after '" \o action.action
                            \o "' - dynamic content loaded"]
        ELSE
            [result EXCEPT
                !.result = "no_change",
                !.observation = "Action '" \o action.action \o "' on '" \o action.target
                                \o "' produced no visible effect",
                !.insight = "No observable change detected - action may have failed or target was incorrect"]

(***************************************************************************)
(* agent/state.py                                                          *)
(***************************************************************************)

AgentState == {"idle", "observe", "decide", "act", "evaluate", "stop"}

\* StateContext.should_stop: the ceiling on executed actions
MaxActions == 6

\* should_stop with > for >=
should_stop_late(count) == count > MaxActions

should_stop(count) == count >= MaxActions

(***************************************************************************)
(* browser/driver.py: the page states the driver returns                   *)
(***************************************************************************)

\* BrowserDriver.get_page_state: the dict it builds
PageState(url, title, buttons, links, errors) ==
    [url |-> url, title |-> title, buttons |-> buttons, links |-> links,
     errors |-> errors]

pg_home ==
    PageState("https://docs.python.org/3/", "Docs", <<"Go">>,
              <<"Python 3.13", "Tutorial">>, <<>>)
pg_home_err ==
    PageState("https://docs.python.org/3/", "Docs", <<>>,
              <<"Tutorial">>, <<"error">>)
pg_login ==
    PageState("https://x.test/login", "Login", <<"Go">>, <<>>, <<>>)

\* what get_page_state may return during a run
LoopPages == {pg_home, pg_home_err, pg_login}

(***************************************************************************)
(* The external proposer: the answers of the chat completion, as the lines *)
(* of response.choices[0].message.content                                  *)
(***************************************************************************)

LlmAnswers ==
    { <<"Here are my suggestions:">>,
      <<"- click_link: Python 3.13">>,
      <<"- click_button:Go">>,
      <<"- try_wrong_login:test_validation">>,
      <<"- observe_page:done">>,
      <<"- click_link:Tutorial", "- click_link:Tutorial">>,
      <<"- click_button:Go", " - click_link : Tutorial ">>,
      <<"- observe_page:done", "- try_wrong_login:test_validation">>,
      <<"- try_wrong_login:test_validation", "- click_button:Go",
        "- observe_page:done", "- click_link:Python 3.13">> }

\* GrokLLM.propose_actions on those answers: the lists it returns when the
\* API call succeeds
LlmProposals == {parse_response(lines) : lines \in LlmAnswers}

\* decision.propose_actions_llm with llm.get_llm: the lists of proposals a
\* call may return.  Without an API key GrokLLM() raises and the rule-based
\* proposals of decision.py are used; with one, the call to the API returns
\* an answer, or raises and GrokLLM._fallback_proposals is used.
propose_actions_llm(page_summary, history, key) ==
    IF ~key
    THEN {[how |-> "unavailable",
           proposals |-> _fallback_proposals(page_summary, history)]}
    ELSE {[how |-> "answered", proposals |-> p] : p \in LlmProposals}
         \cup {[how |-> "failed",
                proposals |-> llm_fallback_proposals(page_summary)]}

(***************************************************************************)
(* agent/orchestrator.py                                                   *)
(***************************************************************************)

\* one driver operation other than close(): counted, and counted as late
\* when close() has already been called
DriverCall(n) ==
    /\ driver_calls' = driver_calls + n
    /\ late_calls' = late_calls + (IF close_calls > 0 THEN n ELSE 0)

\* StateContext.transition_to
transition_to(new_state) == current_state' = new_state

\* run without the finally clause: the exception goes straight to the caller
Raise_no_finally(exc) ==
    /\ pending' = exc
    /\ run_pc' = "raised"

\* an exception leaves run's try block: control goes to the finally clause
Raise(exc) ==
    /\ pending' = exc
    /\ run_pc' = "finally"

\* Orchestrator.__init__, and the module state of agent/llm.py at start
Init ==
    /\ current_state = "idle"
    /\ page_data = None
    /\ chosen_action = None
    /\ action_result = None
    /\ action_count = 0
    /\ action_history = <<>>
    /\ insights = <<>>
    /\ proposals = <<>>
    /\ filtered = <<>>
    /\ evaluation = None
    /\ run_pc = "start"
    /\ pending = "none"
    /\ close_calls = 0
    /\ driver_calls = 0
    /\ late_calls = 0
    /\ log_written = 0
    /\ has_api_key \in BOOLEAN
    /\ llm_instance = FALSE
    /\ proposer = "none"

\* run, lines 29-30: the driver opens the start URL
Open ==
    /\ run_pc = "start"
    /\ DriverCall(1)
    /\ transition_to("observe")
    /\ run_pc' = "loop"
    /\ UNCHANGED <<page_data, chosen_action, action_result, action_count,
                   action_history, insights, proposals, filtered, evaluation,
                   pending, close_calls, log_written, has_api_key, llm_instance,
                   proposer>>

\* run entering OBSERVE before the driver has opened the start URL
OpenFails_after_transition ==
    /\ run_pc = "start"
    /\ DriverCall(1)
    /\ transition_to("observe")
    /\ Raise("NavigationError")
    /\ UNCHANGED <<page_data, chosen_action, action_result, action_count,
                   action_history, insights, proposals, filtered, evaluation,
                   close_calls, log_written, has_api_key, llm_instance,
                   proposer>>

\* run, line 29: page.goto raises
OpenFails ==
    /\ run_pc = "start"
    /\ DriverCall(1)
    /\ Raise("NavigationError")
    /\ UNCHANGED <<ctx_vars, proposals, filtered, evaluation, close_calls,
                   log_written, has_api_key, llm_instance, proposer>>

_observe ==
    /\ run_pc = "loop"
    /\ current_state = "observe"
    /\ DriverCall(1)
    /\ \E pg \in LoopPages : page_data' = pg
    /\ transition_to("decide")
    /\ UNCHANGED <<chosen_action, action_result, action_count, action_history,
                   insights, proposals, filtered, evaluation, run_pc, pending,
                   close_calls, log_written, has_api_key, llm_instance,
                   proposer>>

\* _decide without the exit to STOP: with nothing chosen the agent decides again
decide_transition_retry(action) ==
    IF action = None
    THEN UNCHANGED <<current_state, chosen_action>>
    ELSE /\ chosen_action' = action
         /\ transition_to("act")

\* _decide, lines 72-77: what follows from the pipeline's answer
decide_transition(action) ==
    IF action = None
    THEN /\ transition_to("stop")
         /\ UNCHANGED chosen_action
    ELSE /\ chosen_action' = action
         /\ transition_to("act")

_decide ==
    /\ run_pc = "loop"
    /\ current_state = "decide"
    /\ \E ret \in propose_actions_llm(summarize_page_state(page_data),
                                      action_history, has_api_key) :
        /\ proposer' = ret.how
        /\ proposals' = ret.proposals
        /\ filtered' = filter_actions(ret.proposals, action_history, page_data)
        /\ \E action \in {decide_next_action(ret.proposals, page_data,
                                              action_history)} :
                decide_transition(action)
    /\ llm_instance' = (llm_instance \/ has_api_key)
    /\ UNCHANGED <<page_data, action_result, action_count, action_history,
                   insights, evaluation, run_pc, pending, close_calls,
                   driver_calls, late_calls, log_written, has_api_key>>

\* log_action reached only when the action succeeded
log_action_if_success(action) ==
    IF action_result'.success
    THEN /\ action_history' = Append(action_history, action)
         /\ action_count' = action_count + 1
    ELSE UNCHANGED <<action_history, action_count>>

\* log_action putting the newest action first
log_action_newest_first(action) ==
    /\ action_history' = <<action>> \o action_history
    /\ action_count' = action_count + 1

\* StateContext.log_action
log_action(action) ==
    /\ action_history' = Append(action_history, action)
    /\ action_count' = action_count + 1

\* _act handing every chosen action to the driver
is_click_every_kind(action) == TRUE

\* _act, lines 92-97: whether the action is handed to the driver
is_click(action) == action.action \in {"click_button", "click_link"}

_act ==
    /\ run_pc = "loop"
    /\ current_state = "act"
    /\ \E success \in BOOLEAN, after_state \in LoopPages :
        /\ is_click(chosen_action) \/ ~success
        /\ DriverCall(IF is_click(chosen_action) THEN 2 ELSE 1)
        /\ page_data' = after_state
        /\ action_result' = [before |-> page_data, after |-> after_state,
                             success |-> success]
    /\ log_action(chosen_action)
    /\ transition_to("evaluate")
    /\ proposals' = <<>>
    /\ filtered' = <<>>
    /\ proposer' = "none"
    /\ UNCHANGED <<chosen_action, insights, evaluation, run_pc, pending,
                   close_calls, log_written, has_api_key, llm_instance>>

\* _evaluate looping back to DECIDE, on the page state of the ACT step
evaluate_transition_to_decide ==
    IF should_stop(action_count)
    THEN transition_to("stop")
    ELSE transition_to("decide")

\* _evaluate giving up when the action changed nothing
evaluate_transition_stop_on_no_change ==
    IF should_stop(action_count) \/ evaluation'.result = "no_change"
    THEN transition_to("stop")
    ELSE transition_to("observe")

\* _evaluate, lines 142-147
evaluate_transition ==
    IF should_stop(action_count)
    THEN transition_to("stop")
    ELSE transition_to("observe")

\* _evaluate numbering the insight entries from 0
_evaluate_step_from_zero ==
    /\ run_pc = "loop"
    /\ current_state = "evaluate"
    /\ evaluation' = evaluate_action_outcome(action_result.before,
                                             action_result.after, chosen_action)
    /\ insights' = Append(insights, [action |-> chosen_action,
                                     step |-> action_count - 1])
    /\ action_result' = evaluation'
    /\ evaluate_transition
    /\ UNCHANGED <<page_data, chosen_action, action_count, action_history,
                   proposals, filtered, run_pc, pending, close_calls,
                   driver_calls, late_calls, log_written, has_api_key,
                   llm_instance, proposer>>

\* An entry of the insight trace is {action, evaluation, step}; the model
\* keeps the action and the step, and the evaluation of the latest entry
\* only (in `evaluation`).
_evaluate ==
    /\ run_pc = "loop"
    /\ current_state = "evaluate"
    /\ evaluation' = evaluate_action_outcome(action_result.before,
                                             action_result.after, chosen_action)
    /\ insights' = Append(insights, [action |-> chosen_action, step |-> action_count])
    /\ action_result' = evaluation'
    /\ evaluate_transition
    /\ UNCHANGED <<page_data, chosen_action, action_count, action_history,
                   proposals, filtered, run_pc, pending, close_calls,
                   driver_calls, late_calls, log_written, has_api_key,
                   llm_instance, proposer>>

\* run, lines 47-48, with _save_logs: the trace file is written
_save_logs ==
    /\ run_pc = "loop"
    /\ current_state = "stop"
    /\ log_written' = log_written + 1
    /\ run_pc' = "finally"
    /\ UNCHANGED <<ctx_vars, proposals, filtered, evaluation, pending,
                   close_calls, driver_calls, late_calls, has_api_key,
                   llm_instance, proposer>>

\* _save_logs raises (os.makedirs, open or json.dump)
SaveFails ==
    /\ run_pc = "loop"
    /\ current_state = "stop"
    /\ Raise("OSError")
    /\ UNCHANGED <<ctx_vars, proposals, filtered, evaluation, close_calls,
                   driver_calls, late_calls, log_written, has_api_key,
                   llm_instance, proposer>>

\* get_page_state raises in _observe (line 56) or in _act (line 104, after
\* the click, if any, has returned true or false): nothing of the context
\* has been assigned yet.  _get_buttons, _get_links, page.title() and
\* page.url are called without a try block (driver.py lines 21-29, 60-74).
StepFails ==
    /\ run_pc = "loop"
    /\ current_state \in {"observe", "act"}
    /\ DriverCall(IF current_state = "act" /\ is_click(chosen_action) THEN 2 ELSE 1)
    /\ Raise("DriverError")
    /\ UNCHANGED <<ctx_vars, proposals, filtered, evaluation, close_calls,
                   log_written, has_api_key, llm_instance, proposer>>

\* KeyboardInterrupt while run waits in open, in a step or in _save_logs
Interrupt ==
    /\ run_pc \in {"start", "loop"}
    /\ Raise("KeyboardInterrupt")
    /\ UNCHANGED <<ctx_vars, proposals, filtered, evaluation, close_calls,
                   driver_calls, late_calls, log_written, has_api_key,
                   llm_instance, proposer>>

\* run, lines 50-51: the finally clause calls driver.close(); then run
\* returns, or the pending exception goes on to the caller
Close ==
    /\ run_pc = "finally"
    /\ close_calls' = close_calls + 1
    /\ run_pc' = (IF pending = "none" THEN "returned" ELSE "raised")
    /\ UNCHANGED <<ctx_vars, proposals, filtered, evaluation, pending,
                   driver_calls, late_calls, log_written, has_api_key,
                   llm_instance, proposer>>

\* the steps of a run in which every call returns
RunNext ==
    \/ Open
    \/ _observe
    \/ _decide
    \/ _act
    \/ _evaluate
    \/ _save_logs
    \/ Close

Next ==
    \/ RunNext
    \/ OpenFails
    \/ SaveFails
    \/ StepFails
    \/ Interrupt

\* every run, failures and interrupts included
Spec == Init /\ [][Next]_vars

\* the runs in which every driver and proposer call returns and no interrupt
\* arrives: run is one sequential loop, so it keeps taking steps
RunSpec == Init /\ [][RunNext]_vars /\ WF_vars(RunNext)

(***************************************************************************)
(* The pure functions called directly: the filter and the selector of      *)
(* decide_next_action on drawn proposals, histories and page states, and   *)
(* the evaluator on drawn before/after states.                             *)
(***************************************************************************)

\* longest history drawn for a direct call of the filter
MaxHist == 1

\* llm.py line 88 and decision.py line 54: a proposer returns at most this many
MaxProposals == 3

Candidates ==
    {"click_link:Python 3.13", "click_link:Python 3.12", "click_link:Download",
     "click_link:About", "click_button:Go", "click_button:Python 3.13",
     "try_wrong_login:test_validation", "observe_page:done"}

SeqsUpTo(S, n) == UNION {[1..k -> S] : k \in 0..n}

pd_full ==
    PageState("https://docs.python.org/3/", "Docs", <<"Go", "Python 3.13">>,
              <<"Python 3.13", "Python 3.12", "Download", "About">>, <<>>)
pd_some ==
    PageState("https://docs.python.org/3/", "Docs", <<"Python 3.13">>,
              <<"Download", "About">>, <<"error">>)
pd_bare ==
    PageState("https://x.test/login", "Login", <<>>, <<>>, <<>>)

DecidePages == {pd_full, pd_some, pd_bare}

\* the actions a history holds: what choose_action returns for a candidate
ChosenActions == {choose_action(<<c>>, pd_full) : c \in Candidates} \ {None}

EvalPage(url, buttons, errors) == PageState(url, "Docs", buttons, <<>>, errors)

EvalPages ==
    { EvalPage("https://docs.python.org/3/", <<"Go">>, <<>>),
      EvalPage("https://docs.python.org/3/", <<"Go">>, <<"error">>),
      EvalPage("https://docs.python.org/3/", <<"Go", "Submit">>, <<>>),
      EvalPage("https://docs.python.org/3/", <<"Submit", "Go">>, <<"invalid", "failed">>),
      EvalPage("https://x.test/login", <<>>, <<"error">>),
      EvalPage("https://docs.python.org/3/tutorial/", <<"Go", "Next">>, <<"error">>),
      EvalPage("https://docs.python.org/3/Tutorial/classes.html", <<"Go">>, <<>>),
      EvalPage("https://docs.python.org/3.13/whatsnew/3.13.html", <<"Go">>, <<>>),
      EvalPage("https://docs.python.org/3.12/whatsnew/3.12.html", <<"Go">>, <<"error">>),
      EvalPage("https://docs.python.org/3.13/library/3.13.html", <<>>, <<>>),
      EvalPage("https://www.python.org/downloads/", <<"Go">>, <<>>) }

EvalActions ==
    {choose_action(<<c>>, pd_full) :
        c \in {"click_link:Download", "click_button:Go",
               "try_wrong_login:test_validation"}}

\* a direct call is about to be made on drawn arguments
PureInit ==
    /\ current_state = "idle"
    /\ action_count = 0
    /\ insights = <<>>
    /\ filtered = <<>>
    /\ evaluation = None
    /\ pending = "none"
    /\ close_calls = 0
    /\ driver_calls = 0
    /\ late_calls = 0
    /\ log_written = 0
    /\ has_api_key = FALSE
    /\ llm_instance = FALSE
    /\ proposer = "none"
    /\ \/ /\ run_pc = "call_filter"
          /\ page_data \in DecidePages
          /\ action_history \in SeqsUpTo(ChosenActions, MaxHist)
          /\ proposals \in SeqsUpTo(Candidates, MaxProposals)
          /\ chosen_action = None
          /\ action_result = None
       \/ /\ run_pc = "call_evaluate"
          /\ action_history = <<>>
          /\ proposals = <<>>
          /\ chosen_action \in EvalActions
          /\ action_result \in [before : EvalPages, after : EvalPages,
                                success : BOOLEAN]
          /\ page_data = action_result.after

\* decide_next_action, line 218
CallFilter ==
    /\ run_pc = "call_filter"
    /\ filtered' = filter_actions(proposals, action_history, page_data)
    /\ run_pc' = "call_choose"
    /\ UNCHANGED <<ctx_vars, proposals, evaluation, pending, close_calls,
                   driver_calls, late_calls, log_written, has_api_key,
                   llm_instance, proposer>>

\* decide_next_action, line 222
CallChoose ==
    /\ run_pc = "call_choose"
    /\ chosen_action' = choose_action(filtered, page_data)
    /\ run_pc' = "called"
    /\ UNCHANGED <<current_state, page_data, action_result, action_count,
                   action_history, insights, proposals, filtered, evaluation,
                   pending, close_calls, driver_calls, late_calls, log_written,
                   has_api_key, llm_instance, proposer>>

\* _evaluate, lines 123-127
CallEvaluate ==
    /\ run_pc = "call_evaluate"
    /\ evaluation' = evaluate_action_outcome(action_result.before,
                                             action_result.after, chosen_action)
    /\ run_pc' = "called"
    /\ UNCHANGED <<ctx_vars, proposals, filtered, pending, close_calls,
                   driver_calls, late_calls, log_written, has_api_key,
                   llm_instance, proposer>>

PureNext ==
    \/ CallFilter
    \/ CallChoose
    \/ CallEvaluate

PureSpec == PureInit /\ [][PureNext]_vars

(***************************************************************************)
(* Properties                                                              *)
(***************************************************************************)

\* the candidate c, read as kind:target, is the kind and target of an entry
\* of the history
AlreadyExecuted(c, history) ==
    \E j \in 1..Len(history) :
        /\ history[j].action = SplitHead(c)
        /\ history[j].target = SplitTail(c)

\* the state a direct call of the filter and the selector has returned to
DecisionMade == run_pc = "called" /\ action_result = None

\* the state a direct call of the evaluator has returned to
EvaluationMade == run_pc = "called" /\ evaluation # None

\* C1: when every driver and proposer call returns, a run that has opened
\* the start URL eventually reaches STOP, with at most 6 actions executed.
C1_Termination ==
    (run_pc = "loop") ~> (current_state = "stop" /\ action_count <= 6)

\* a run that stopped on the ceiling
C1_Witness ==
    /\ current_state = "stop"
    /\ action_count = 6
    /\ run_pc = "returned"

\* C2: the executed-action count never exceeds 6, and the EVALUATE step that
\* follows the 6th executed action goes to STOP, whatever its result.
C2_Ceiling ==
    /\ [](action_count <= 6)
    /\ [][(current_state = "evaluate" /\ action_count = 6
           /\ current_state' # "evaluate") => current_state' = "stop"]_vars

\* the 6th action changed nothing visible, and the run stopped after it
C2_Witness ==
    /\ current_state = "stop"
    /\ action_count = 6
    /\ evaluation # None
    /\ evaluation.result = "no_change"

Edges ==
    { <<"idle", "observe">>, <<"observe", "decide">>, <<"decide", "act">>,
      <<"decide", "stop">>, <<"act", "evaluate">>, <<"evaluate", "observe">>,
      <<"evaluate", "stop">> }

\* C3: the state starts as IDLE and changes only along the seven edges of
\* the loop; in STOP neither the state nor anything else of the run
\* context or of the insight trace changes any more.
C3_Transitions ==
    /\ current_state = "idle"
    /\ [][current_state' # current_state
          => <<current_state, current_state'>> \in Edges]_vars
    /\ [][current_state = "stop" => UNCHANGED ctx_vars]_vars

\* a run went on after STOP: the trace was written and the driver closed
C3_Witness ==
    /\ current_state = "stop"
    /\ run_pc = "returned"
    /\ action_count > 0

\* C4: in a DECIDE step, if every proposal is the kind and target of a
\* history entry then the filtered list is empty, the step goes to STOP and
\* nothing is executed or logged; and the step goes to ACT exactly when the
\* selector returns an action, which becomes the chosen action.
C4_DecideStops ==
    [][(current_state = "decide" /\ current_state' # "decide") =>
        /\ (\A i \in 1..Len(proposals') :
                AlreadyExecuted(proposals'[i], action_history))
           => /\ filtered' = <<>>
              /\ current_state' = "stop"
              /\ UNCHANGED <<action_history, action_count, driver_calls, chosen_action>>
        /\ current_state' \in {"act", "stop"}
        /\ current_state' = "act" <=> choose_action(filtered', page_data) # None
        /\ current_state' = "act" => chosen_action' = choose_action(filtered', page_data)
      ]_vars

\* the same executed candidate proposed twice: the run stopped in DECIDE
C4_Witness ==
    /\ current_state = "stop"
    /\ Len(proposals) = 2
    /\ proposals[1] = proposals[2]
    /\ AlreadyExecuted(proposals[1], action_history)
    /\ filtered = <<>>
    /\ Len(insights) = Len(action_history)

\* C5: no candidate in the output of the filter is the kind and target of
\* an entry of the history the loop has built.
C5_NoRepeat ==
    \A i \in 1..Len(filtered) : ~AlreadyExecuted(filtered[i], action_history)

\* an executed candidate was proposed again with a new one: only the new
\* one is left, and the history holds clicks and a generic-fallback action
C5_Witness ==
    /\ current_state = "act"
    /\ \E i \in 1..Len(proposals) : AlreadyExecuted(proposals[i], action_history)
    /\ filtered # <<>>
    /\ \E j \in 1..Len(action_history) : action_history[j].target = "unknown"
    /\ \E j \in 1..Len(action_history) : action_history[j].action = "click_link"

\* C6: filtering the filtered list again, with the same history and page
\* state, gives the same list.
C6_Idempotent ==
    run_pc \in {"call_choose", "called"}
        => filter_actions(filtered, action_history, page_data) = filtered

\* the filter dropped some proposals and kept others
C6_Witness ==
    /\ run_pc = "call_choose"
    /\ filtered # <<>>
    /\ Len(filtered) < Len(proposals)
    /\ action_history # <<>>

EvaluationResults == {"url_changed", "error_appeared", "content_changed", "no_change"}

\* C7: the evaluator returns one of the four results: url_changed if the
\* URLs differ; otherwise error_appeared if errors appeared where there were
\* none; otherwise content_changed if a button label is new; otherwise
\* no_change.
C7_Evaluator ==
    EvaluationMade =>
        LET b == action_result.before
            a == action_result.after
            url_differs == b.url # a.url
            new_errors == a.errors # <<>> /\ b.errors = <<>>
            new_button == \E x \in Range(a.buttons) : x \notin Range(b.buttons)
        IN  /\ evaluation.result \in EvaluationResults
            /\ url_differs => evaluation.result = "url_changed"
            /\ (~url_differs /\ new_errors) => evaluation.result = "error_appeared"
            /\ (~url_differs /\ ~new_errors /\ new_button)
                   => evaluation.result = "content_changed"
            /\ (~url_differs /\ ~new_errors /\ ~new_button)
                   => evaluation.result = "no_change"

\* the URL changed and errors and buttons appeared: the URL change wins
C7_Witness ==
    /\ EvaluationMade
    /\ action_result.before.url # action_result.after.url
    /\ action_result.after.errors # <<>>
    /\ action_result.before.errors = <<>>
    /\ \E x \in Range(action_result.after.buttons) :
           x \notin Range(action_result.before.buttons)
    /\ evaluation.result = "url_changed"

\* the target of the candidate c begins like a version identifier
VersionTarget(c) == StartsWith(SplitTail(c), "Python 3.")

\* the first position whose flag is set
First(flags) ==
    CHOOSE i \in DOMAIN flags : flags[i] /\ \A j \in 1..(i - 1) : ~flags[j]

\* which candidates of the filtered list have a version target
VersionTargets == [i \in 1..Len(filtered) |-> VersionTarget(filtered[i])]

\* C8 as claimed: whenever the filtered list holds a candidate, of any kind,
\* whose target is a version identifier, the selector returns the first
\* such candidate.
C8_AnyVersionCandidate ==
    (DecisionMade /\ \E i \in 1..Len(filtered) : VersionTarget(filtered[i]))
        => /\ chosen_action # None
           /\ chosen_action.action = SplitHead(filtered[First(VersionTargets)])
           /\ chosen_action.target = SplitTail(filtered[First(VersionTargets)])

VersionLink(c) == SplitHead(c) = "click_link" /\ VersionTarget(c)

\* which candidates of the filtered list are version links
VersionLinks == [i \in 1..Len(filtered) |-> VersionLink(filtered[i])]

\* C8, amended: whenever the filtered list holds a click_link candidate
\* whose target begins with "Python 3.", the selector returns the first
\* such candidate, whatever precedes it.
C8_VersionLinkFirst ==
    (DecisionMade /\ \E i \in 1..Len(filtered) : VersionLink(filtered[i]))
        => /\ chosen_action # None
           /\ chosen_action.action = "click_link"
           /\ chosen_action.target = SplitTail(filtered[First(VersionLinks)])

\* a keyword link and a button precede the version link that is chosen
C8_Witness ==
    /\ DecisionMade
    /\ Len(filtered) = 3
    /\ filtered[1] = "click_link:Download"
    /\ SplitHead(filtered[2]) = "click_button"
    /\ VersionLink(filtered[3])
    /\ chosen_action # None
    /\ chosen_action.target = SplitTail(filtered[3])

\* C9: the insight of a url_changed result names exactly one of three
\* cases, by the page types of the two URLs: version variants when both are
\* version_docs, meaningful exploration when the types differ, redundant
\* exploration when they are equal and not version_docs.
C9_UrlInsight ==
    (EvaluationMade /\ evaluation.result = "url_changed") =>
        LET bt == detect_page_type(action_result.before.url)
            at == detect_page_type(action_result.after.url)
            variants == Contains(evaluation.insight, "exploring version variants")
            meaningful == Contains(evaluation.insight, "meaningful exploration")
            redundant == Contains(evaluation.insight, "redundant exploration")
        IN  /\ variants <=> (bt = "version_docs" /\ at = "version_docs")
            /\ meaningful <=> (bt # at)
            /\ redundant <=> (bt = at /\ bt # "version_docs")

\* two different version pages: the insight speaks of version variants
C9_Witness ==
    /\ EvaluationMade
    /\ evaluation.result = "url_changed"
    /\ detect_page_type(action_result.before.url) = "version_docs"
    /\ detect_page_type(action_result.after.url) = "version_docs"
    /\ Contains(evaluation.insight, "exploring version variants")

\* C10: when run has been left, by return or by an exception, close() has
\* been called exactly once; it is never called twice, and no other driver
\* operation is ever invoked after it.
C10_Release ==
    /\ run_pc \in {"returned", "raised"} => close_calls = 1
    /\ close_calls <= 1
    /\ late_calls = 0

\* an interrupt ended a run that had executed actions: the driver is closed
C10_Witness ==
    /\ run_pc = "raised"
    /\ pending = "KeyboardInterrupt"
    /\ action_count > 0
    /\ close_calls = 1

\* C11 as claimed: whenever run has been left, the trace file has been
\* written (or its writing was attempted and failed), also when the run was
\* aborted by a failed navigation, a failed step or an interrupt.
C11_TraceOnEveryExit ==
    (run_pc \in {"returned", "raised"} /\ pending # "OSError") => log_written = 1

\* C12: when the driver's open fails the run is aborted with the state
\* still IDLE, no page state captured, no action chosen or executed, and
\* the history and the insight trace empty.
C12_FatalNavigation ==
    pending = "NavigationError" =>
        /\ run_pc \in {"finally", "raised"}
        /\ current_state = "idle"
        /\ page_data = None
        /\ chosen_action = None
        /\ action_result = None
        /\ action_count = 0
        /\ action_history = <<>>
        /\ insights = <<>>

\* the run was left on the navigation error, the driver closed
C12_Witness ==
    /\ run_pc = "raised"
    /\ pending = "NavigationError"
    /\ close_calls = 1
    /\ current_state = "idle"

\* C13: every ACT step, whether the click returned true or false, captures
\* the page state after the action, appends the chosen action to the
\* history, counts it and goes to EVALUATE; a click is tried once (one
\* click and one page-state call per step).
C13_FailedClickGoesOn ==
    [][(current_state = "act" /\ action_result' # action_result) =>
        /\ current_state' = "evaluate"
        /\ page_data' = action_result'.after
        /\ action_result'.before = page_data
        /\ action_history' = Append(action_history, chosen_action)
        /\ action_count' = action_count + 1
        /\ driver_calls' = driver_calls + (IF is_click(chosen_action) THEN 2 ELSE 1)
      ]_vars

\* the click of the 2nd action returned false: the step logged the action
\* and went to EVALUATE
C13_Witness ==
    /\ current_state = "evaluate"
    /\ is_click(chosen_action)
    /\ action_result # None
    /\ ~action_result.success
    /\ action_count = 2
    /\ action_history[2] = chosen_action
    /\ page_data = action_result.after

\* C14 as claimed: whenever the proposer failed, because it could not be
\* constructed or because its call raised, the proposals are the one
\* fallback list of the page summary and the history, at most 3 long.
C14_OneFallback ==
    proposer \in {"unavailable", "failed"} =>
        /\ Len(proposals) <= MaxProposals
        /\ proposals = _fallback_proposals(summarize_page_state(page_data),
                                          action_history)

\* C15 as claimed: no run is aborted by get_page_state raising in a step.
C15_PageStateNeverRaises == pending # "DriverError"

\* C16: an EVALUATE step goes to OBSERVE whenever fewer than 6 actions have
\* been executed, whatever result the evaluator returned, and to STOP only
\* when the count has reached the ceiling.
C16_ResultDoesNotStop ==
    [][(current_state = "evaluate" /\ insights' # insights) =>
        /\ evaluation'.result \in EvaluationResults
        /\ action_count < MaxActions => current_state' = "observe"
        /\ current_state' = "stop" => action_count >= MaxActions
      ]_vars

\* the 5th action changed nothing, and the loop is back in OBSERVE
C16_Witness ==
    /\ current_state = "observe"
    /\ action_count = 5
    /\ Len(insights) = 5
    /\ evaluation # None
    /\ evaluation.result = "no_change"

\* the candidate p passes the three rules of the filter on the history and
\* page state of the call
PassesRules(p) ==
    /\ \A j \in 1..Len(action_history) :
            p # action_history[j].action \o ":" \o action_history[j].target
    /\ StartsWith(p, "click_button:")
            => SubSeq(p, Len("click_button:") + 1, Len(p)) \in Range(page_data.buttons)
    /\ StartsWith(p, "click_link:")
            => SubSeq(p, Len("click_link:") + 1, Len(p)) \in Range(page_data.links)

\* C17: the filter returns exactly the proposals that pass its three
\* rules, in the order proposed, duplicates kept.
C17_ExactSubsequence ==
    run_pc \in {"call_choose", "called"}
        => filtered = SelectSeq(proposals, PassesRules)

\* one proposal dropped as executed, another kept twice
C17_Witness ==
    /\ run_pc = "call_choose"
    /\ Len(proposals) = 3
    /\ AlreadyExecuted(proposals[1], action_history)
    /\ Len(filtered) = 2
    /\ filtered[1] = filtered[2]
    /\ StartsWith(filtered[1], "click_link:")

Keywords == {"download", "modules", "index", "tutorial", "library"}

\* which candidates of the filtered list are links to a keyword target
KeywordLinks ==
    [i \in 1..Len(filtered) |->
        /\ SplitHead(filtered[i]) = "click_link"
        /\ \E k \in Keywords : Contains(Lower(SplitTail(filtered[i])), k)]

\* which candidates of the filtered list are links, and which are buttons
Links == [i \in 1..Len(filtered) |-> SplitHead(filtered[i]) = "click_link"]
Buttons == [i \in 1..Len(filtered) |-> SplitHead(filtered[i]) = "click_button"]

\* the selector returned the candidate c as an action of kind `kind`
Returned(kind, c) ==
    /\ chosen_action # None
    /\ chosen_action.action = kind
    /\ SplitHead(c) = kind
    /\ chosen_action.target = SplitTail(c)

Some(flags) == \E i \in DOMAIN flags : flags[i]

\* C18: with no version candidate in the filtered list, the selector
\* returns the first keyword link; if there is none, the first link; if
\* there is no link, the first button.
C18_BelowVersion ==
    (DecisionMade /\ ~Some(VersionTargets)) =>
        /\ Some(KeywordLinks)
            => Returned("click_link", filtered[First(KeywordLinks)])
        /\ (~Some(KeywordLinks) /\ Some(Links))
            => Returned("click_link", filtered[First(Links)])
        /\ (~Some(Links) /\ Some(Buttons))
            => Returned("click_button", filtered[First(Buttons)])

\* a button and a plain link precede the keyword link that is returned
C18_Witness ==
    /\ DecisionMade
    /\ ~Some(VersionTargets)
    /\ Len(filtered) = 3
    /\ Buttons[1]
    /\ Links[2] /\ ~KeywordLinks[2]
    /\ KeywordLinks[3]
    /\ Returned("click_link", filtered[3])

\* the candidate c is an observe_page marker
ObserveMarker(c) == SplitHead(c) = "observe_page"

\* the selector returned the first candidate of the filtered list as the
\* generic fallback (whichever way its action field names that candidate)
GenericFallback ==
    /\ chosen_action # None
    /\ chosen_action.action \in {filtered[1], SplitHead(filtered[1])}
    /\ chosen_action.target = "unknown"

\* C19: on a filtered list without link and button candidates the selector
\* returns none exactly when the list is empty or holds one candidate, an
\* observe_page marker; otherwise it returns the first candidate as the
\* generic fallback with target "unknown".
C19_NoneOnlyForSoleObserve ==
    (DecisionMade /\ ~Some(Links) /\ ~Some(Buttons)) =>
        IF filtered = <<>> \/ (Len(filtered) = 1 /\ ObserveMarker(filtered[1]))
        THEN chosen_action = None
        ELSE GenericFallback

KindOfAction ==
    {"click_button", "click_link", "fill_signup_form",
     "fill_registration_form", "fill_login_form", "try_wrong_login",
     "try_correct_login", "try_empty_login", "navigate_to_login",
     "observe_page"}

\* every candidate of the proposals is a "<kind>:<target>" string of a
\* known kind
WellFormed(props) ==
    \A i \in 1..Len(props) :
        /\ Contains(props[i], ":")
        /\ SplitHead(props[i]) \in KindOfAction

\* C20: for well-formed candidates, a returned Chosen Action has an action
\* field that is one of the action kinds and a non-empty reason.
C20_ActionIsAKind ==
    (DecisionMade /\ WellFormed(proposals) /\ chosen_action # None) =>
        /\ chosen_action.action \in KindOfAction
        /\ chosen_action.reason # ""

\* C21: the action history never holds two entries with the same action
\* and target.
C21_NothingExecutedTwice ==
    \A i, j \in 1..Len(action_history) :
        (/\ action_history[i].action = action_history[j].action
         /\ action_history[i].target = action_history[j].target) => i = j

\* the record r has a success field, and it says the action failed
CarriesFailure(r) == "success" \in DOMAIN r /\ r.success = FALSE

\* C22: when the EVALUATE step of an action that failed has completed, the
\* run context or the insight trace still holds that action's success=false
\* (in the action result, the evaluation, the last history entry or the last
\* insight entry).
C22_FailureStaysRecorded ==
    [][(current_state = "evaluate" /\ insights' # insights
        /\ CarriesFailure(action_result)) =>
            \/ CarriesFailure(action_result')
            \/ CarriesFailure(evaluation')
            \/ CarriesFailure(chosen_action')
            \/ CarriesFailure(action_history'[Len(action_history')])
            \/ CarriesFailure(insights'[Len(insights')])
            \/ CarriesFailure(insights'[Len(insights')].action)]_vars

\* the insight trace has one entry per history entry, in the same order,
\* numbered from 1
TraceMatchesHistory ==
    /\ Len(insights) = Len(action_history)
    /\ \A i \in 1..Len(insights) :
        /\ insights[i].action = action_history[i]
        /\ insights[i].step = i

\* C23: each EVALUATE step appends one insight entry, for the action of the
\* preceding ACT step, its evaluation and the number of actions executed so
\* far; in OBSERVE, DECIDE and STOP the insight trace matches the history
\* entry by entry with steps 1..n, and the trace file is written with
\* total_actions = length of the history = length of the insight trace.
C23_OneInsightPerAction ==
    /\ [](current_state \in {"observe", "decide", "stop"} => TraceMatchesHistory)
    /\ [](log_written > 0 =>
            action_count = Len(action_history) /\ action_count = Len(insights))
    /\ [][(current_state = "evaluate" /\ current_state' # "evaluate") =>
            /\ insights' = Append(insights,
                                  [action |-> action_history[Len(action_history)],
                                   step |-> Len(action_history)])
            /\ evaluation' = evaluate_action_outcome(
                                 action_result.before, action_result.after,
                                 action_history[Len(action_history)])]_vars

\* the trace of a full run has been written
C23_Witness ==
    /\ log_written = 1
    /\ current_state = "stop"
    /\ Len(insights) = MaxActions
    /\ insights[MaxActions].step = MaxActions
    /\ insights[MaxActions].action = action_history[MaxActions]

\* C24: the action history only grows, at its end: a step leaves it
\* unchanged or is the ACT step appending the chosen action; its length is
\* the executed-action count in every state.
C24_AppendOnly ==
    /\ [](Len(action_history) = action_count)
    /\ [][\/ action_history' = action_history
          \/ /\ current_state = "act"
             /\ action_history' = Append(action_history, chosen_action)]_vars

\* three different actions executed, in the order they were chosen
C24_Witness ==
    /\ current_state = "evaluate"
    /\ action_count = 3
    /\ Len(action_history) = 3
    /\ action_history[3] = chosen_action
    /\ action_history[1] # action_history[2]
    /\ action_history[2] # action_history[3]

\* the summary of the page state pd holds a login-path marker
LoginMarker(pd) ==
    \/ Contains(summarize_page_state(pd), "practice-test-login")
    \/ Contains(summarize_page_state(pd), "/login")

\* no proposer can be constructed and the page state read last, if any, is
\* a login page
OnLoginPages == ~has_api_key /\ (page_data # None => LoginMarker(page_data))

\* the positions of the history at which an action of the kind was executed
ExecutedAt(kind) ==
    {i \in 1..Len(action_history) : SplitHead(action_history[i].action) = kind}

\* what the rule-based proposals of a decision on a login page are, by the
\* history
FallbackOrder ==
    (proposer = "unavailable" /\ LoginMarker(page_data)) =>
        /\ Len(proposals) >= 1
        /\ SplitHead(proposals[1]) =
              IF ExecutedAt("try_wrong_login") = {} THEN "try_wrong_login"
              ELSE IF ExecutedAt("try_correct_login") = {} THEN "try_correct_login"
              ELSE "observe_page"
        /\ (ExecutedAt("try_wrong_login") # {} /\ ExecutedAt("try_correct_login") # {})
              => \A i \in 1..Len(proposals) : ObserveMarker(proposals[i])

\* try_correct_login only after try_wrong_login, each at most once, and
\* nothing else
LoginAttemptsInOrder ==
    /\ \A c \in ExecutedAt("try_correct_login") :
            \E w \in ExecutedAt("try_wrong_login") : w < c
    /\ Cardinality(ExecutedAt("try_wrong_login")) <= 1
    /\ Cardinality(ExecutedAt("try_correct_login")) <= 1
    /\ action_count <= 2

\* C25: in a run without proposer the rule-based proposals on a login page
\* are try_wrong_login until one is in the history, then try_correct_login
\* until one is in the history, then observe_page only; try_correct_login
\* is never executed before try_wrong_login and each at most once; and if
\* the run reads login pages only, it reaches STOP with exactly two actions
\* executed.
C25_LoginFallbackOrder ==
    /\ [](~has_api_key => FallbackOrder /\ LoginAttemptsInOrder)
    /\ []OnLoginPages => <>(current_state = "stop" /\ action_count = 2)

\* the run on login pages has stopped after the two login attempts
C25_Witness ==
    /\ ~has_api_key
    /\ current_state = "stop"
    /\ log_written = 1
    /\ LoginMarker(page_data)
    /\ proposals = <<"observe_page:done">>
    /\ action_count = 2
    /\ ExecutedAt("try_wrong_login") = {1}
    /\ ExecutedAt("try_correct_login") = {2}

\* the chosen click names a button, respectively a link, of the page state
\* the context holds
Feasible ==
    IF chosen_action.action = "click_button"
    THEN chosen_action.target \in Range(page_data.buttons)
    ELSE chosen_action.target \in Range(page_data.links)

\* C26: when the ACT step is about to click a button or a link, its text is
\* a button label (a link text) of the context's page state; that page state
\* is the one the OBSERVE step stored, left as it is by the DECIDE step, and
\* the one the ACT step passes on as the before-state.
C26_FeasibleAtExecution ==
    /\ []((run_pc = "loop" /\ current_state = "act" /\ is_click(chosen_action))
            => Feasible)
    /\ [][current_state = "decide" => page_data' = page_data]_vars
    /\ [][(current_state = "act" /\ current_state' = "evaluate")
            => action_result'.before = page_data]_vars

\* the ACT step is about to click the button of a page without links, the
\* proposed click on a link having been dropped
C26_Witness ==
    /\ run_pc = "loop"
    /\ current_state = "act"
    /\ action_count = 0
    /\ page_data.links = <<>>
    /\ proposals = <<"click_button:Go", "click_link:Tutorial">>
    /\ filtered = <<"click_button:Go">>
    /\ chosen_action.action = "click_button"
    /\ chosen_action.target = "Go"
    /\ "Go" \in Range(page_data.buttons)

\* the kinds of action the ACT step hands to the driver's click operations
ClickKind(action) == action.action \in {"click_button", "click_link"}

\* C27: the ACT step calls a click operation of the driver (a second driver
\* call besides get_page_state) only for a click_button or click_link
\* action; for any other chosen action it makes no such call and records
\* success = false, and still appends the action to the history and counts
\* it.
C27_OnlyClicksAreExecuted ==
    [][current_state = "act" =>
        /\ driver_calls' > driver_calls + 1 => ClickKind(chosen_action)
        /\ (current_state' = "evaluate" /\ ~ClickKind(chosen_action)) =>
            /\ driver_calls' = driver_calls + 1
            /\ action_result'.success = FALSE
            /\ action_history' = Append(action_history, chosen_action)
            /\ action_count' = action_count + 1]_vars

\* the sixth action of a run was one the ACT step does not execute, and the
\* run has stopped at the ceiling
C27_Witness ==
    /\ current_state = "stop"
    /\ action_count = MaxActions
    /\ ~ClickKind(action_history[MaxActions])
    /\ action_history[MaxActions].target = "unknown"
    /\ ClickKind(action_history[1])

\* no proposer can be constructed, and the first page state of the run,
\* just stored by the OBSERVE step, has no login-path marker in its summary
FirstPageNoLogin ==
    /\ ~has_api_key
    /\ run_pc = "loop"
    /\ current_state = "decide"
    /\ action_count = 0
    /\ ~LoginMarker(page_data)

\* nothing has been executed and nothing is chosen
NothingExecuted ==
    /\ action_count = 0
    /\ action_history = <<>>
    /\ insights = <<>>
    /\ chosen_action = None

\* C28: without a proposer and with no login-path marker in the summary of
\* the first page, the DECIDE step gets observe_page candidates only from
\* the rule-based proposals, chooses nothing and goes to STOP, and the run
\* ends with no action executed, an empty history and an empty insight
\* trace.
C28_NothingToDo ==
    /\ [][FirstPageNoLogin =>
            /\ proposer' = "unavailable"
            /\ Len(proposals') >= 1
            /\ \A i \in 1..Len(proposals') : ObserveMarker(proposals'[i])
            /\ current_state' = "stop"
            /\ NothingExecuted']_vars
    /\ FirstPageNoLogin ~>
            (current_state = "stop" /\ log_written = 1 /\ NothingExecuted)

\* such a run has stopped on a page that shows a button and links
C28_Witness ==
    /\ ~has_api_key
    /\ current_state = "stop"
    /\ log_written = 1
    /\ action_count = 0
    /\ insights = <<>>
    /\ ~LoginMarker(page_data)
    /\ Len(page_data.buttons) > 0
    /\ Len(page_data.links) > 0
    /\ proposals = <<"observe_page:no_action">>
    /\ driver_calls = 2

====
